---- MODULE Spec2Model ----
(***************************************************************************)
(* Model of "Emailer Tool/EmailerTool.py": an AWS Lambda handler that      *)
(* parses an event, looks the account up in DynamoDB, fetches an email     *)
(* template from S3, substitutes the event message into it and sends it    *)
(* through SES.                                                            *)
(*                                                                         *)
(* Python text is modelled as a sequence of Unicode code points, so that   *)
(* substring search, splitting, replacement, repr(), json.dumps() and      *)
(* UTF-8 decoding are computed character by character.  A Python value is  *)
(* a record [tag, val]: tag "str" (val = the code points), "none" (the     *)
(* value None), "absent" (a dict key that is not there) or "unbound" (a    *)
(* local variable that was never assigned).                                *)
(*                                                                         *)
(* The deployment configuration (os.environ entries, boto3 client          *)
(* construction) is taken as present, as the function's setup steps        *)
(* require; the outcomes of the three service calls are nondeterministic.  *)
(***************************************************************************)
EXTENDS Integers, Sequences, FiniteSets, TLC

VARIABLES event, table, s3_object, pc, event_details, account_details,
          email_template, email_template_modified, rerendered, bucket_key,
          ddb_result, s3_result, ses_result, ses_requests, response,
          raised, raised_in, completed

vars == <<event, table, s3_object, pc, event_details, account_details,
          email_template, email_template_modified, rerendered, bucket_key,
          ddb_result, s3_result, ses_result, ses_requests, response,
          raised, raised_in, completed>>

-----------------------------------------------------------------------------
(* Bounds of the model. *)

\* number of pieces a generated SNS message text is built from
MaxMsgPieces == 3
\* number of pieces a generated template body is built from
MaxTplPieces == 3

-----------------------------------------------------------------------------
(* Text constants of the program, as code points. *)

\* "[insert-iolations-here]"
PLACEHOLDER == <<91, 105, 110, 115, 101, 114, 116, 45, 105, 111, 108, 97, 116, 105, 111, 110, 115, 45, 104, 101, 114, 101, 93>>
\* "New AWS IAM Access Key Pair Created"
KNOWN_SUBJECT == <<78, 101, 119, 32, 65, 87, 83, 32, 73, 65, 77, 32, 65, 99, 99, 101, 115, 115, 32, 75, 101, 121, 32, 80, 97, 105, 114, 32, 67, 114, 101, 97, 116, 101, 100>>
\* "Account: ", the literal prefix of the regular expression
ACCOUNT_PREFIX == <<65, 99, 99, 111, 117, 110, 116, 58, 32>>
\* "Email sent!"
EMAIL_SENT == <<69, 109, 97, 105, 108, 32, 115, 101, 110, 116, 33>>
\* "ERROR email not sent!"
EMAIL_NOT_SENT == <<69, 82, 82, 79, 82, 32, 101, 109, 97, 105, 108, 32, 110, 111, 116, 32, 115, 101, 110, 116, 33>>
\* the S3 key of the only known template, and the empty key
KEY_ROTATION_TEMPLATE == "IAM Auto Key Rotation Enforcement.html"
NO_TEMPLATE == ""

\* code points used by the conversions below
SPACE == <<32>>
QUOTE == <<39>>
DQUOTE == <<34>>
IsDigit(c) == c >= 48 /\ c <= 57

-----------------------------------------------------------------------------
(* Python values. *)

PyStr(s) == [tag |-> "str", val |-> s]
PyNone == [tag |-> "none", val |-> <<>>]
Absent == [tag |-> "absent", val |-> <<>>]
Unbound == [tag |-> "unbound", val |-> <<>>]

NoException == "none"

-----------------------------------------------------------------------------
(* Text operations. *)

\* s starts with sub at position i (1-based)
MatchesAt(s, sub, i) ==
  /\ i >= 1
  /\ i + Len(sub) - 1 <= Len(s)
  /\ SubSeq(s, i, i + Len(sub) - 1) = sub

\* str.find: position of the first occurrence of sub in s, 0 when there is none
FirstIndex(s, sub) ==
  LET hits == {i \in 1..(Len(s) + 1) : MatchesAt(s, sub, i)}
  IN IF hits = {} THEN 0
     ELSE CHOOSE i \in hits : \A j \in hits : i <= j

\* the Python test "sub in s"
Contains(s, sub) == FirstIndex(s, sub) # 0

\* length of the longest run of digits of s that starts at position i
RECURSIVE DigitRun(_, _)
DigitRun(s, i) ==
  IF i <= Len(s) /\ IsDigit(s[i]) THEN 1 + DigitRun(s, i + 1) ELSE 0

\* str.split(sep) for a one-character separator
RECURSIVE Split(_, _)
Split(s, sep) ==
  LET i == FirstIndex(s, sep)
  IN IF i = 0 THEN <<s>>
     ELSE <<SubSeq(s, 1, i - 1)>> \o Split(SubSeq(s, i + 1, Len(s)), sep)

\* str.replace(old, new): every non-overlapping occurrence, left to right
RECURSIVE Replace(_, _, _)
Replace(s, old, new) ==
  IF Len(s) < Len(old) THEN s
  ELSE IF MatchesAt(s, old, 1)
       THEN new \o Replace(SubSeq(s, Len(old) + 1, Len(s)), old, new)
       ELSE <<s[1]>> \o Replace(Tail(s), old, new)

\* concatenation of a sequence of texts
RECURSIVE Concat(_)
Concat(parts) ==
  IF parts = <<>> THEN <<>> ELSE Head(parts) \o Concat(Tail(parts))

\* ", ".join(parts)
RECURSIVE Join(_)
Join(parts) ==
  IF parts = <<>> THEN <<>>
  ELSE IF Len(parts) = 1 THEN parts[1]
  ELSE parts[1] \o <<44, 32>> \o Join(Tail(parts))

-----------------------------------------------------------------------------
(* Events.  An event is a dict with the optional keys 'Records', 'account'  *)
(* and 'detail-type'.  Records.kind tells how far the path                  *)
(* event['Records'][0]['Sns'] exists: "absent" (no key), "empty" (an empty  *)
(* list), "nosns" (a first record without 'Sns') or "sns" (an envelope with *)
(* the optional keys 'Subject' and 'Message').                              *)

NoRecords == [kind |-> "absent", Subject |-> Absent, Message |-> Absent]
EmptyRecords == [kind |-> "empty", Subject |-> Absent, Message |-> Absent]
RecordWithoutSns == [kind |-> "nosns", Subject |-> Absent, Message |-> Absent]
SnsRecord(subject, message) == [kind |-> "sns", Subject |-> subject, Message |-> message]

\* repr() of a value: a quoted text (no character of the modelled texts needs
\* escaping) or None
ReprValue(v) ==
  IF v.tag = "str" THEN QUOTE \o v.val \o QUOTE
  ELSE <<78, 111, 110, 101>>

\* one "'key': value" item of a dict's repr, none when the key is absent
ReprItem(key, v) ==
  IF v.tag = "absent" THEN <<>>
  ELSE << QUOTE \o key \o QUOTE \o <<58, 32>> \o ReprValue(v) >>

\* repr() of a dict from the texts of its items
ReprDict(items) == <<123>> \o Join(items) \o <<125>>

\* repr() of event['Records']
ReprRecords(rec) ==
  IF rec.kind = "absent" THEN <<>>
  ELSE << <<39, 82, 101, 99, 111, 114, 100, 115, 39, 58, 32>> \o
          ( IF rec.kind = "empty" THEN <<91, 93>>
            ELSE IF rec.kind = "nosns" THEN <<91, 123, 125, 93>>
            ELSE <<91>> \o
                 ReprDict(<< <<39, 83, 110, 115, 39, 58, 32>> \o
                             ReprDict(ReprItem(<<83, 117, 98, 106, 101, 99, 116>>, rec.Subject) \o
                                      ReprItem(<<77, 101, 115, 115, 97, 103, 101>>, rec.Message)) >>)
                 \o <<93>> ) >>

\* str(event)
StrEvent(ev) ==
  ReprDict(ReprRecords(ev.Records) \o
           ReprItem(<<97, 99, 99, 111, 117, 110, 116>>, ev.account) \o
           ReprItem(<<100, 101, 116, 97, 105, 108, 45, 116, 121, 112, 101>>, ev.detailtype))

-----------------------------------------------------------------------------
(* parse_event *)

\* Search taking the last "Account: " of the text instead of the first
SearchLast(text) ==
  LET hits == {i \in 1..Len(text) : MatchesAt(text, ACCOUNT_PREFIX, i)}
      i == IF hits = {} THEN 0 ELSE CHOOSE k \in hits : \A j \in hits : j <= k
  IN IF i = 0 THEN Unbound
     ELSE PyStr(SubSeq(text, i, i + Len(ACCOUNT_PREFIX) - 1
                                  + DigitRun(text, i + Len(ACCOUNT_PREFIX))))

\* re.search(r'Account: [0-9]*', text).group(): the leftmost "Account: "
\* together with the digits that follow it; Unbound stands for no match
Search(text) ==
  LET i == FirstIndex(text, ACCOUNT_PREFIX)
  IN IF i = 0 THEN Unbound
     ELSE PyStr(SubSeq(text, i, i + Len(ACCOUNT_PREFIX) - 1
                                  + DigitRun(text, i + Len(ACCOUNT_PREFIX))))

\* the local variables of parse_event before the try block
ParseLocals == [account_id |-> Unbound, event_subject |-> Unbound, event_message |-> Unbound]

\* the body of the try block: the locals it leaves and whether it raised
ParseTry(ev) ==
  LET rec == ev.Records
      l0 == ParseLocals
  IN IF rec.kind # "sns" \/ rec.Message.tag = "absent"
     THEN [locals |-> l0, failed |-> TRUE]
     ELSE LET l1 == [l0 EXCEPT !.event_message = rec.Message]
          IN IF rec.Subject.tag = "absent"
             THEN [locals |-> l1, failed |-> TRUE]
             ELSE LET l2 == [l1 EXCEPT !.event_subject = rec.Subject]
                  IN IF l2.event_message.tag # "str"
                     THEN [locals |-> l2, failed |-> TRUE]
                     ELSE LET m == Search(l2.event_message.val)
                          IN IF m.tag = "str"
                             THEN [locals |-> [l2 EXCEPT !.account_id =
                                                  PyStr(Split(m.val, SPACE)[2])],
                                   failed |-> FALSE]
                             ELSE [locals |-> l2, failed |-> FALSE]

\* an except block that assigns event_message only when the try block left
\* it unassigned
ParseExceptKeepsMessage(ev, l) ==
  IF ev.account.tag = "absent" \/ ev.detailtype.tag = "absent"
  THEN [locals |-> l, exc |-> "KeyError"]
  ELSE [locals |-> [account_id |-> ev.account,
                    event_subject |-> ev.detailtype,
                    event_message |-> IF l.event_message.tag = "unbound"
                                      THEN PyStr(StrEvent(ev))
                                      ELSE l.event_message],
        exc |-> NoException]

\* the except block, entered with the locals the try block left
ParseExcept(ev, l) ==
  IF ev.account.tag = "absent" \/ ev.detailtype.tag = "absent"
  THEN [locals |-> l, exc |-> "KeyError"]
  ELSE [locals |-> [account_id |-> ev.account,
                    event_subject |-> ev.detailtype,
                    event_message |-> PyStr(StrEvent(ev))],
        exc |-> NoException]

\* parse_event(event): the returned tuple, or the exception it raises
parse_event(ev) ==
  LET t == ParseTry(ev)
      r == IF t.failed THEN ParseExcept(ev, t.locals)
           ELSE [locals |-> t.locals, exc |-> NoException]
      l == r.locals
  IN IF r.exc # NoException THEN [exc |-> r.exc, value |-> <<>>]
     ELSE IF l.account_id.tag = "unbound"
          THEN [exc |-> "UnboundLocalError", value |-> <<>>]
          ELSE [exc |-> NoException,
                value |-> <<l.account_id, l.event_subject, l.event_message>>]

-----------------------------------------------------------------------------
(* get_account_email *)

\* get_account_email returning the name and the email in each other's place
get_account_email_swapped(account_id, tbl, call) ==
  IF call = "error" THEN [exc |-> "ClientError", value |-> <<>>, result |-> "error"]
  ELSE IF account_id.tag # "str"
       THEN [exc |-> "TypeError", value |-> <<>>, result |-> "error"]
  ELSE IF account_id.val \notin DOMAIN tbl
       THEN [exc |-> "UnboundLocalError", value |-> <<>>, result |-> "miss"]
  ELSE [exc |-> NoException,
        value |-> <<account_id, PyStr(tbl[account_id.val].accountemail),
                    PyStr(tbl[account_id.val].accountname)>>,
        result |-> "hit"]

\* get_account_email(account_id) against the DynamoDB table tbl; call is the
\* outcome of get_item itself ("answer" or "error").  The key is
\* str(account_id); accountname and accountemail are assigned only when the
\* response has an 'Item'.
get_account_email(account_id, tbl, call) ==
  IF call = "error" THEN [exc |-> "ClientError", value |-> <<>>, result |-> "error"]
  ELSE IF account_id.tag # "str"
       THEN [exc |-> "TypeError", value |-> <<>>, result |-> "error"]
  ELSE LET found == account_id.val \in DOMAIN tbl
           accountemail == IF found THEN PyStr(tbl[account_id.val].accountemail) ELSE Unbound
           accountname == IF found THEN PyStr(tbl[account_id.val].accountname) ELSE Unbound
       IN IF accountname.tag = "unbound" \/ accountemail.tag = "unbound"
          THEN [exc |-> "UnboundLocalError", value |-> <<>>, result |-> "miss"]
          ELSE [exc |-> NoException,
                value |-> <<account_id, accountname, accountemail>>,
                result |-> "hit"]

-----------------------------------------------------------------------------
(* get_s3_object and get_email_template *)

\* the bucket holds no object under the requested key
NoObject == <<-1>>

IsContinuation(b) == b >= 128 /\ b <= 191

\* str(bytes, 'utf-8'): the decoded code points, or ok = FALSE where Python
\* raises UnicodeDecodeError
RECURSIVE Utf8Decode(_)
Utf8Decode(b) ==
  IF b = <<>> THEN [ok |-> TRUE, text |-> <<>>]
  ELSE
    LET b1 == b[1]
        n == IF b1 < 128 THEN 1
             ELSE IF b1 >= 194 /\ b1 <= 223 THEN 2
             ELSE IF b1 >= 224 /\ b1 <= 239 THEN 3
             ELSE IF b1 >= 240 /\ b1 <= 244 THEN 4
             ELSE 0
        wellFormed ==
          /\ n >= 1
          /\ Len(b) >= n
          /\ \A i \in 2..n : IsContinuation(b[i])
          /\ (b1 = 224 => b[2] >= 160)
          /\ (b1 = 237 => b[2] <= 159)
          /\ (b1 = 240 => b[2] >= 144)
          /\ (b1 = 244 => b[2] <= 143)
    IN IF ~wellFormed THEN [ok |-> FALSE, text |-> <<>>]
       ELSE
         LET cp == IF n = 1 THEN b1
                   ELSE IF n = 2 THEN (b1 - 192) * 64 + (b[2] - 128)
                   ELSE IF n = 3 THEN (b1 - 224) * 4096 + (b[2] - 128) * 64 + (b[3] - 128)
                   ELSE (b1 - 240) * 262144 + (b[2] - 128) * 4096
                        + (b[3] - 128) * 64 + (b[4] - 128)
             rest == Utf8Decode(SubSeq(b, n + 1, Len(b)))
         IN [ok |-> rest.ok, text |-> IF rest.ok THEN <<cp>> \o rest.text ELSE <<>>]

\* get_s3_object(bucket_name, filename): the object's bytes, or the exception
\* of obj.get().  An empty key is refused by the client; fetch is the outcome
\* of the call to the service ("ok" or "error").
get_s3_object(filename, object, fetch) ==
  IF filename = NO_TEMPLATE THEN [exc |-> "ParamValidationError", body |-> <<>>]
  ELSE IF fetch = "error" THEN [exc |-> "ClientError", body |-> <<>>]
  ELSE IF object = NoObject THEN [exc |-> "NoSuchKey", body |-> <<>>]
  ELSE [exc |-> NoException, body |-> object]

\* the key chosen for an event type (a text)
BucketKey(event_type) ==
  IF Contains(event_type, KNOWN_SUBJECT) THEN KEY_ROTATION_TEMPLATE ELSE NO_TEMPLATE

\* get_email_template decoding outside its try block: a UnicodeDecodeError
\* leaves the function
get_email_template_decode_unguarded(event_type, object, fetch) ==
  IF event_type.tag # "str"
  THEN [exc |-> "TypeError", value |-> <<>>, key |-> NO_TEMPLATE, result |-> "none"]
  ELSE
    LET key == BucketKey(event_type.val)
        email_object == get_s3_object(key, object, fetch)
        decoded == IF email_object.exc = NoException
                   THEN Utf8Decode(email_object.body)
                   ELSE [ok |-> FALSE, text |-> <<>>]
    IN [exc |-> IF email_object.exc = NoException /\ ~decoded.ok
                THEN "UnicodeDecodeError" ELSE NoException,
        value |-> IF decoded.ok THEN decoded.text ELSE <<>>,
        key |-> key,
        result |-> IF email_object.exc # NoException THEN "fetch_failed"
                   ELSE IF decoded.ok THEN "fetched" ELSE "decode_failed"]

\* get_email_template(event_type): the test "... in event_type" raises for a
\* value that is not a text; failures of the fetch and of the decoding are
\* caught and give ''
get_email_template(event_type, object, fetch) ==
  IF event_type.tag # "str"
  THEN [exc |-> "TypeError", value |-> <<>>, key |-> NO_TEMPLATE, result |-> "none"]
  ELSE
    LET key == BucketKey(event_type.val)
        email_object == get_s3_object(key, object, fetch)
        decoded == IF email_object.exc = NoException
                   THEN Utf8Decode(email_object.body)
                   ELSE [ok |-> FALSE, text |-> <<>>]
    IN [exc |-> NoException,
        value |-> IF decoded.ok THEN decoded.text ELSE <<>>,
        key |-> key,
        result |-> IF email_object.exc # NoException THEN "fetch_failed"
                   ELSE IF decoded.ok THEN "fetched" ELSE "decode_failed"]

-----------------------------------------------------------------------------
(* update_email_template *)

\* update_email_template appending the message to a body without the token
update_email_template_appending(html_template, event_details_message) ==
  IF event_details_message.tag # "str"
  THEN [exc |-> "TypeError", value |-> <<>>]
  ELSE [exc |-> NoException,
        value |-> IF Contains(html_template, PLACEHOLDER)
                  THEN Replace(html_template, PLACEHOLDER, event_details_message.val)
                  ELSE html_template \o event_details_message.val]

\* update_email_template(html_template, account_details, subject, message)
update_email_template(html_template, event_details_message) ==
  IF event_details_message.tag # "str"
  THEN [exc |-> "TypeError", value |-> <<>>]
  ELSE [exc |-> NoException,
        value |-> Replace(html_template, PLACEHOLDER, event_details_message.val)]

-----------------------------------------------------------------------------
(* send_email and the response of lambda_handler *)

\* the request send_email hands to ses_client.send_email
SesRequest(end_user_email, subject_text, html_email_body) ==
  [ToAddresses |-> <<end_user_email>>,
   Subject |-> subject_text,
   Text |-> html_email_body,
   Html |-> html_email_body]

\* send_email: the requests it submits and the exception it raises.  The log
\* line concatenates the recipient, which raises before any request for a
\* recipient that is not a text; delivery is the outcome of the SES call.
send_email(end_user_email, subject_text, html_email_body, delivery) ==
  IF end_user_email.tag # "str"
  THEN [exc |-> "TypeError", requests |-> <<>>]
  ELSE [exc |-> IF delivery = "rejected" THEN "ClientError" ELSE NoException,
        requests |-> <<SesRequest(end_user_email, subject_text, html_email_body)>>]

\* json.dumps of a text: quoted, with the quote and the backslash escaped
\* (the texts modelled hold no control or non-ASCII character)
RECURSIVE JsonEscape(_)
JsonEscape(s) ==
  IF s = <<>> THEN <<>>
  ELSE (IF s[1] = 34 \/ s[1] = 92 THEN <<92, s[1]>> ELSE <<s[1]>>) \o JsonEscape(Tail(s))

JsonDumps(s) == DQUOTE \o JsonEscape(s) \o DQUOTE

NoResponse == [statusCode |-> 0, body |-> <<>>]

\* a response that reports the failed send in its status code
HandlerResponseSignalling(exc) ==
  IF exc = NoException
  THEN [statusCode |-> 200, body |-> JsonDumps(EMAIL_SENT)]
  ELSE [statusCode |-> 500, body |-> JsonDumps(EMAIL_NOT_SENT)]

\* the response lambda_handler builds after the try block around send_email
HandlerResponse(exc) ==
  IF exc = NoException
  THEN [statusCode |-> 200, body |-> JsonDumps(EMAIL_SENT)]
  ELSE [statusCode |-> 200, body |-> JsonDumps(EMAIL_NOT_SENT)]

-----------------------------------------------------------------------------
(* Inputs. *)

\* every concatenation of at most n pieces
Texts(pieces, n) == {Concat(q) : q \in UNION {[1..k -> pieces] : k \in 0..n}}

\* "123456789012" and "444455556666"
ACCOUNT_A == <<49, 50, 51, 52, 53, 54, 55, 56, 57, 48, 49, 50>>
ACCOUNT_B == <<52, 52, 52, 52, 53, 53, 53, 53, 54, 54, 54, 54>>
\* "Config Rule", a subject with no template
OTHER_SUBJECT == <<67, 111, 110, 102, 105, 103, 32, 82, 117, 108, 101>>

\* pieces of message texts: "Account: ", "123456789012", "3", "x "
MessagePieces == {ACCOUNT_PREFIX, ACCOUNT_A, <<51>>, <<120, 32>>}

\* pieces of template bodies: the token, its two halves "[insert-" and
\* "iolations-here]", and "x"
TemplatePieces == {PLACEHOLDER,
                   <<91, 105, 110, 115, 101, 114, 116, 45>>,
                   <<105, 111, 108, 97, 116, 105, 111, 110, 115, 45, 104, 101, 114, 101, 93>>,
                   <<120>>}

Subjects == {Absent, PyNone, PyStr(KNOWN_SUBJECT), PyStr(OTHER_SUBJECT)}

EventsWith(messages) ==
  { [Records |-> r, account |-> a, detailtype |-> d] :
      r \in {NoRecords, EmptyRecords, RecordWithoutSns}
            \cup {SnsRecord(sub, m) : sub \in Subjects,
                                      m \in {Absent, PyNone} \cup {PyStr(t) : t \in messages}},
      a \in {Absent, PyStr(ACCOUNT_A), PyStr(ACCOUNT_B)},
      d \in {Absent, PyStr(KNOWN_SUBJECT), PyStr(OTHER_SUBJECT)} }

\* events of the pipeline: messages "Account: 123456789012",
\* "Account: 444455556666", "x " and "Account: x "
Events ==
  EventsWith({ACCOUNT_PREFIX \o ACCOUNT_A, ACCOUNT_PREFIX \o ACCOUNT_B,
              <<120, 32>>, ACCOUNT_PREFIX \o <<120, 32>>})

\* events of the parser alone: every message of at most MaxMsgPieces pieces
ParserEvents == EventsWith(Texts(MessagePieces, MaxMsgPieces))

\* the account mapping: "Dev"/"dev@x.io" and "Ops"/"ops@x.io"
Directory ==
  (ACCOUNT_A :> [accountname |-> <<68, 101, 118>>,
                 accountemail |-> <<100, 101, 118, 64, 120, 46, 105, 111>>])
  @@ (ACCOUNT_B :> [accountname |-> <<79, 112, 115>>,
                    accountemail |-> <<111, 112, 115, 64, 120, 46, 105, 111>>])

Tables == {[a \in D |-> Directory[a]] : D \in SUBSET {ACCOUNT_A, ACCOUNT_B}}

\* what the bucket holds under the template's key: nothing, "a<token>b",
\* "hi", the token twice, a byte that is no UTF-8, and "e-acute" then the token
S3Objects ==
  {NoObject,
   <<97>> \o PLACEHOLDER \o <<98>>,
   <<104, 105>>,
   PLACEHOLDER \o PLACEHOLDER,
   <<255>>,
   <<195, 169>> \o PLACEHOLDER}

\* messages of the renderer alone: "", "v", the token, "v" then the token
RenderMessages == {<<>>, <<118>>, PLACEHOLDER, <<118>> \o PLACEHOLDER}

NotRendered == <<-1>>

-----------------------------------------------------------------------------
(* The invocation. *)

Stages == <<"parse_event", "get_account_email", "get_email_template",
            "update_email_template">>

Start ==
  /\ event_details = <<>>
  /\ account_details = <<>>
  /\ email_template = <<>>
  /\ email_template_modified = <<>>
  /\ rerendered = NotRendered
  /\ bucket_key = NO_TEMPLATE
  /\ ddb_result = "none"
  /\ s3_result = "none"
  /\ ses_result = "none"
  /\ ses_requests = <<>>
  /\ response = NoResponse
  /\ raised = NoException
  /\ raised_in = "none"
  /\ completed = <<>>

Init ==
  /\ event \in Events
  /\ table \in Tables
  /\ s3_object \in S3Objects
  /\ pc = "parse_event"
  /\ Start

\* a stage raised: the exception leaves lambda_handler
Raise(exc, stage) ==
  /\ pc' = "raised"
  /\ raised' = exc
  /\ raised_in' = stage

\* line 52
ParseEvent ==
  /\ pc = "parse_event"
  /\ LET r == parse_event(event)
     IN IF r.exc # NoException
        THEN /\ Raise(r.exc, "parse_event")
             /\ UNCHANGED <<event_details, completed>>
        ELSE /\ event_details' = r.value
             /\ completed' = Append(completed, "parse_event")
             /\ pc' = "get_account_email"
             /\ UNCHANGED <<raised, raised_in>>
  /\ UNCHANGED <<event, table, s3_object, account_details, email_template,
                 email_template_modified, rerendered, bucket_key, ddb_result,
                 s3_result, ses_result, ses_requests, response>>

\* line 53
GetAccountEmail ==
  /\ pc = "get_account_email"
  /\ \E call \in {"answer", "error"} :
       LET r == get_account_email(event_details[1], table, call)
       IN /\ ddb_result' = r.result
          /\ IF r.exc # NoException
             THEN /\ Raise(r.exc, "get_account_email")
                  /\ UNCHANGED <<account_details, completed>>
             ELSE /\ account_details' = r.value
                  /\ completed' = Append(completed, "get_account_email")
                  /\ pc' = "get_email_template"
                  /\ UNCHANGED <<raised, raised_in>>
  /\ UNCHANGED <<event, table, s3_object, event_details, email_template,
                 email_template_modified, rerendered, bucket_key,
                 s3_result, ses_result, ses_requests, response>>

\* line 54
GetEmailTemplate ==
  /\ pc = "get_email_template"
  /\ \E fetch \in {"ok", "error"} :
       LET r == get_email_template(event_details[2], s3_object, fetch)
       IN /\ s3_result' = r.result
          /\ bucket_key' = r.key
          /\ IF r.exc # NoException
             THEN /\ Raise(r.exc, "get_email_template")
                  /\ UNCHANGED <<email_template, completed>>
             ELSE /\ email_template' = r.value
                  /\ completed' = Append(completed, "get_email_template")
                  /\ pc' = "update_email_template"
                  /\ UNCHANGED <<raised, raised_in>>
  /\ UNCHANGED <<event, table, s3_object, event_details, account_details,
                 email_template_modified, rerendered, ddb_result,
                 ses_result, ses_requests, response>>

\* line 55
UpdateEmailTemplate ==
  /\ pc = "update_email_template"
  /\ LET r == update_email_template(email_template, event_details[3])
     IN IF r.exc # NoException
        THEN /\ Raise(r.exc, "update_email_template")
             /\ UNCHANGED <<email_template_modified, completed>>
        ELSE /\ email_template_modified' = r.value
             /\ completed' = Append(completed, "update_email_template")
             /\ pc' = "send_email"
             /\ UNCHANGED <<raised, raised_in>>
  /\ UNCHANGED <<event, table, s3_object, event_details, account_details,
                 email_template, rerendered, bucket_key, ddb_result,
                 s3_result, ses_result, ses_requests, response>>

\* a dispatch that tries once more after a failed send
DispatchRetrying ==
  /\ pc = "send_email"
  /\ \E delivery \in {"accepted", "rejected"} :
       LET r == send_email(account_details[3], event_details[2],
                           email_template_modified, delivery)
       IN /\ ses_requests' = ses_requests \o r.requests
          /\ ses_result' = IF r.exc = NoException THEN "sent" ELSE "failed"
          /\ response' = HandlerResponse(r.exc)
          /\ pc' = IF r.exc # NoException /\ Len(ses_requests) < 1
                   THEN "send_email" ELSE "returned"
  /\ UNCHANGED <<event, table, s3_object, event_details, account_details,
                 email_template, email_template_modified, rerendered,
                 bucket_key, ddb_result, s3_result, raised, raised_in,
                 completed>>

\* lines 57-71: the try block around send_email, the response and the return
Dispatch ==
  /\ pc = "send_email"
  /\ \E delivery \in {"accepted", "rejected"} :
       LET r == send_email(account_details[3], event_details[2],
                           email_template_modified, delivery)
       IN /\ ses_requests' = ses_requests \o r.requests
          /\ ses_result' = IF r.exc = NoException THEN "sent" ELSE "failed"
          /\ response' = HandlerResponse(r.exc)
  /\ pc' = "returned"
  /\ UNCHANGED <<event, table, s3_object, event_details, account_details,
                 email_template, email_template_modified, rerendered,
                 bucket_key, ddb_result, s3_result, raised, raised_in,
                 completed>>

Next ==
  \/ ParseEvent
  \/ GetAccountEmail
  \/ GetEmailTemplate
  \/ UpdateEmailTemplate
  \/ Dispatch

Spec == Init /\ [][Next]_vars

-----------------------------------------------------------------------------
(* parse_event alone, over every generated message. *)

InitParser ==
  /\ event \in ParserEvents
  /\ table = Directory
  /\ s3_object = NoObject
  /\ pc = "parse_event"
  /\ Start

NextParser == ParseEvent

SpecParser == InitParser /\ [][NextParser]_vars

-----------------------------------------------------------------------------
(* update_email_template alone, applied to a body and then to its result. *)

InitRender ==
  /\ event = [Records |-> NoRecords, account |-> PyStr(ACCOUNT_B),
              detailtype |-> PyStr(KNOWN_SUBJECT)]
  /\ table = Directory
  /\ s3_object = NoObject
  /\ pc = "update_email_template"
  /\ \E m \in RenderMessages :
       event_details = <<PyStr(ACCOUNT_B), PyStr(KNOWN_SUBJECT), PyStr(m)>>
  /\ account_details = <<PyStr(ACCOUNT_B), PyStr(Directory[ACCOUNT_B].accountname),
                         PyStr(Directory[ACCOUNT_B].accountemail)>>
  /\ email_template \in Texts(TemplatePieces, MaxTplPieces)
  /\ email_template_modified = <<>>
  /\ rerendered = NotRendered
  /\ bucket_key = KEY_ROTATION_TEMPLATE
  /\ ddb_result = "hit"
  /\ s3_result = "fetched"
  /\ ses_result = "none"
  /\ ses_requests = <<>>
  /\ response = NoResponse
  /\ raised = NoException
  /\ raised_in = "none"
  /\ completed = <<"parse_event", "get_account_email", "get_email_template">>

RenderAgain ==
  /\ pc = "send_email"
  /\ rerendered = NotRendered
  /\ LET r == update_email_template(email_template_modified, event_details[3])
     IN rerendered' = r.value
  /\ pc' = "rendered_twice"
  /\ UNCHANGED <<event, table, s3_object, event_details, account_details,
                 email_template, email_template_modified, bucket_key,
                 ddb_result, s3_result, ses_result, ses_requests, response,
                 raised, raised_in, completed>>

NextRender == UpdateEmailTemplate \/ RenderAgain

SpecRender == InitRender /\ [][NextRender]_vars

-----------------------------------------------------------------------------
(* Properties. *)

\* the custom-wrapped access of the try block fails somewhere: no envelope,
\* no 'Message', no 'Subject', or a message that is not a text
CustomAccessFails(ev) ==
  \/ ev.Records.kind # "sns"
  \/ ev.Records.Message.tag = "absent"
  \/ ev.Records.Subject.tag = "absent"
  \/ ev.Records.Message.tag # "str"

\* the event is custom-wrapped with a text subject and a text message
CustomWrapped(ev) ==
  /\ ev.Records.kind = "sns"
  /\ ev.Records.Subject.tag = "str"
  /\ ev.Records.Message.tag = "str"

\* the first "Account: " of m is followed by exactly the digits of account
FirstAccountIs(m, account) ==
  LET i == FirstIndex(m, ACCOUNT_PREFIX)
      j == i + Len(ACCOUNT_PREFIX)
  IN /\ i # 0
     /\ MatchesAt(m, account, j)
     /\ ~(j + Len(account) <= Len(m) /\ IsDigit(m[j + Len(account)]))

\* m has "Account: " followed by at least one digit somewhere
HasAccountDigits(m) ==
  \E i \in 1..Len(m) :
    /\ MatchesAt(m, ACCOUNT_PREFIX, i)
    /\ i + Len(ACCOUNT_PREFIX) <= Len(m)
    /\ IsDigit(m[i + Len(ACCOUNT_PREFIX)])

\* C1: an invocation that reached the dispatch returns statusCode 200, with
\* the body "Email sent!" exactly when send_email did not raise and
\* "ERROR email not sent!" otherwise; nothing raised by send_email leaves the
\* handler.
C1_DispatchResponse ==
  /\ raised_in # "send_email"
  /\ (ses_result # "none" => pc = "returned" /\ raised = NoException)
  /\ (pc = "returned" =>
        /\ response.statusCode = 200
        /\ (response.body = JsonDumps(EMAIL_SENT)) = (ses_result = "sent")
        /\ (response.body = JsonDumps(EMAIL_NOT_SENT)) = (ses_result = "failed")
        /\ ses_result \in {"sent", "failed"})

C1_Witness ==
  /\ pc = "returned"
  /\ ses_result = "failed"
  /\ response.body = JsonDumps(EMAIL_NOT_SENT)

\* C2: for an account that is not in the table, get_account_email does not
\* raise and returns (account_id, undefined, undefined), and the pipeline goes
\* on.
C2_LookupMissReturns ==
  ddb_result = "miss" =>
    /\ raised = NoException
    /\ pc # "raised"
    /\ account_details = <<event_details[1], Unbound, Unbound>>

\* C3 as stated: for a custom-wrapped event whose message contains
\* "Account: 123456789012" anywhere, parse_event returns the account
\* identifier "123456789012".
C3_AnyOccurrence ==
  ( /\ pc # "parse_event"
    /\ CustomWrapped(event)
    /\ Contains(event.Records.Message.val, ACCOUNT_PREFIX \o ACCOUNT_A) )
  => /\ pc = "get_account_email"
     /\ event_details[1] = PyStr(ACCOUNT_A)

\* C3 amended: for a custom-wrapped event in whose message the first
\* "Account: " is followed by 123456789012 and then by no further digit,
\* parse_event returns the account identifier "123456789012", with the
\* envelope's subject and message.
C3_FirstOccurrence ==
  ( /\ pc # "parse_event"
    /\ CustomWrapped(event)
    /\ FirstAccountIs(event.Records.Message.val, ACCOUNT_A) )
  => /\ pc = "get_account_email"
     /\ event_details = <<PyStr(ACCOUNT_A), event.Records.Subject, event.Records.Message>>

C3_Witness ==
  /\ pc = "get_account_email"
  /\ CustomWrapped(event)
  /\ FirstAccountIs(event.Records.Message.val, ACCOUNT_A)
  /\ Len(event.Records.Message.val) > Len(ACCOUNT_PREFIX) + Len(ACCOUNT_A)
  /\ event_details[1] = PyStr(ACCOUNT_A)

\* C4: when the custom-wrapped access fails at any point and the event has
\* 'account' and 'detail-type', parse_event returns exactly
\* (event.account, event.detail-type, str(event)).
C4_NativeFallback ==
  ( /\ pc # "parse_event"
    /\ CustomAccessFails(event)
    /\ event.account.tag # "absent"
    /\ event.detailtype.tag # "absent" )
  => /\ pc = "get_account_email"
     /\ raised = NoException
     /\ event_details = <<event.account, event.detailtype, PyStr(StrEvent(event))>>

C4_Witness ==
  /\ pc = "get_account_email"
  /\ event.Records.kind = "sns"
  /\ event.Records.Message.tag = "str"
  /\ event.Records.Subject.tag = "absent"
  /\ event_details[3] = PyStr(StrEvent(event))
  /\ event_details[3] # event.Records.Message

C6_AlwaysIdempotent ==
  rerendered # NotRendered => rerendered = email_template_modified

\* C6 amended: a body without the token is returned unchanged, and rendering
\* again a rendered body that holds no token gives the same body.
C6_IdempotentOnceTokenGone ==
  /\ ( (pc # "update_email_template" /\ ~Contains(email_template, PLACEHOLDER))
       => email_template_modified = email_template )
  /\ ( (rerendered # NotRendered /\ ~Contains(email_template_modified, PLACEHOLDER))
       => rerendered = email_template_modified )

C6_Witness ==
  /\ rerendered # NotRendered
  /\ Contains(email_template, PLACEHOLDER)
  /\ ~Contains(email_template_modified, PLACEHOLDER)
  /\ email_template_modified # email_template
  /\ rerendered = email_template_modified

\* C7: for an event without notification envelope whose detail-type contains
\* the known subject, whose account is in the table and whose template was
\* fetched, the one request sent has the account's email as recipient, the
\* detail-type as subject, and as both bodies the template with the token
\* replaced by str(event).
C7_EndToEnd ==
  ( /\ pc = "returned"
    /\ event.Records.kind # "sns"
    /\ event.detailtype.tag = "str"
    /\ Contains(event.detailtype.val, KNOWN_SUBJECT)
    /\ event.account.tag = "str"
    /\ event.account.val \in DOMAIN table
    /\ s3_result = "fetched" )
  => LET body == Replace(Utf8Decode(s3_object).text, PLACEHOLDER, StrEvent(event))
     IN ses_requests =
          << [ToAddresses |-> <<PyStr(table[event.account.val].accountemail)>>,
              Subject |-> event.detailtype,
              Text |-> body,
              Html |-> body] >>

C7_Witness ==
  /\ pc = "returned"
  /\ event.Records.kind = "absent"
  /\ event.account = PyStr(ACCOUNT_B)
  /\ s3_result = "fetched"
  /\ Contains(email_template, PLACEHOLDER)
  /\ Len(ses_requests) = 1
  /\ Contains(ses_requests[1].Html, StrEvent(event))
  /\ ses_result = "sent"

\* C8: at most one send request per invocation, only after parse_event,
\* get_account_email, get_email_template and update_email_template completed
\* in that order; an invocation in which a stage raised sends nothing and
\* returns no response.
C8_SingleSendAfterStages ==
  /\ Len(ses_requests) <= 1
  /\ completed = SubSeq(Stages, 1, Len(completed))
  /\ (ses_requests # <<>> => completed = Stages /\ raised = NoException)
  /\ (response # NoResponse => completed = Stages /\ pc = "returned")
  /\ (raised # NoException =>
        /\ pc = "raised"
        /\ ses_requests = <<>>
        /\ response = NoResponse)
  /\ (pc = "raised" => raised # NoException)

C8_Witness ==
  /\ pc = "returned"
  /\ Len(ses_requests) = 1
  /\ ses_result = "failed"
  /\ completed = Stages

\* C9: for a custom-wrapped event whose message has no "Account: " followed
\* by digits, parse_event does not fail and does not fall back: it returns the
\* envelope's subject and message with the account identifier undefined.
C9_NoMatchStillReturns ==
  ( /\ pc # "parse_event"
    /\ event.Records.kind = "sns"
    /\ event.Records.Subject.tag # "absent"
    /\ event.Records.Message.tag = "str"
    /\ ~HasAccountDigits(event.Records.Message.val) )
  => /\ pc = "get_account_email"
     /\ raised = NoException
     /\ event_details = <<Unbound, event.Records.Subject, event.Records.Message>>

\* C10: an invocation raises only when normalization fails altogether (the
\* custom-wrapped access fails and 'account' or 'detail-type' is missing) or
\* when the lookup call itself raises.
C10_OnlyTwoFaults ==
  raised # NoException =>
    \/ ( /\ raised_in = "parse_event"
         /\ CustomAccessFails(event)
         /\ (event.account.tag = "absent" \/ event.detailtype.tag = "absent") )
    \/ ( /\ raised_in = "get_account_email"
         /\ ddb_result = "error" )

====
